---------------------------- MODULE Spec2Model ----------------------------
(***************************************************************************)
(* A model of the Cloud Kitchen ordering application (src/app.py,          *)
(* src/models.py, src/forms.py): the menu catalog, the per-session cart    *)
(* and staged checkout details, and the order ledger.  Every request       *)
(* handler is one action.  Prices are counted in whole minor units.        *)
(***************************************************************************)
EXTENDS Integers, Sequences, FiniteSets, TLC

(***************************************************************************)
(* Bounds of the model: the largest quantity a cart entry reaches, the     *)
(* rows the orders table holds, the requests served.                       *)
(***************************************************************************)
MaxCartQty == 2
MaxOrders == 2
MaxRequests == 6
\* The same for the traced runs of TraceSpec.
MaxTracedQty == 3
MaxTraced == 4
\* The steps taken by the runs of ConcurrentSpec.
MaxSteps == 8

(***************************************************************************)
(* Program constants.                                                      *)
(***************************************************************************)
MinPrice == 1
NameMin == 2
NameMax == 100
AddressMin == 10
AddressMax == 500
PhoneMin == 10
PhoneMax == 15
CardNumberMax == 19
CardExpiryMax == 5
CardCvvMax == 4

Sessions == {"s1"}
NoSession == "none"
\* The menu item ids, prices (in minor units) and quantities that requests carry.
ItemIds == {1, 2}
Prices == {MinPrice, MinPrice + 1}
Quantities == {-1, 0, 1, 2}
OrderIds == 1..MaxOrders

VARIABLES
    menu,         \* table menu_items: id -> [price, available]
    session,      \* per client: the Flask session dict (keys "cart", "order_details")
    orders,       \* table orders: id -> Order row
    order_items,  \* table order_items: id -> OrderItem row
    last,         \* the request served last: handler, session, response, flashed
                  \* message, the id it was about, the cart entries a commit read
    hist,         \* history, per session: what happened since its last commit
    nreq,         \* the number of requests served
    trail,        \* history: the latest requests with their inputs and the
                  \* session they found (kept by the traced specifications)
    inflight      \* the payment requests being served, per worker: the session
                  \* loaded from the cookie, the form, how far the handler has
                  \* got and its uncommitted Order (used by ConcurrentSpec)

vars == <<menu, session, orders, order_items, last, hist, nreq, trail, inflight>>

(***************************************************************************)
(* Dictionaries and tables.                                                *)
(***************************************************************************)
EmptyDict == [k \in {} |-> 0]

DictGet(d, k, default) == IF k \in DOMAIN d THEN d[k] ELSE default

DictSet(d, k, v) == [x \in (DOMAIN d) \cup {k} |-> IF x = k THEN v ELSE d[x]]

DictPop(d, k) == [x \in (DOMAIN d) \ {k} |-> d[x]]

Truthy(d) == DOMAIN d # {}

SetMax(S) == CHOOSE m \in S : \A x \in S : x <= m

\* SQLite gives a new row the id max(id) + 1 (INTEGER PRIMARY KEY, no AUTOINCREMENT).
NextId(table) == IF DOMAIN table = {} THEN 1 ELSE SetMax(DOMAIN table) + 1

RECURSIVE SumOver(_, _)
SumOver(S, f) ==
    IF S = {} THEN 0
    ELSE LET x == CHOOSE y \in S : TRUE IN f[x] + SumOver(S \ {x}, f)

(***************************************************************************)
(* The seeded catalog (the test fixture seeds one item, the application    *)
(* six; the model seeds the items of ItemIds, all available).              *)
(***************************************************************************)
SeedMenu == [i \in ItemIds |-> [price |-> MinPrice, available |-> TRUE]]

NoHist == [committed |-> FALSE, since |-> {}, edited |-> {}]

NoRequest ==
    [op |-> "none", sess |-> NoSession, resp |-> "none", flash |-> "none", id |-> 0,
     n |-> 0]

Init ==
    /\ menu = SeedMenu
    /\ session = [s \in Sessions |-> EmptyDict]
    /\ orders = EmptyDict
    /\ order_items = EmptyDict
    /\ last = NoRequest
    /\ hist = [s \in Sessions |-> NoHist]
    /\ nreq = 0
    /\ trail = <<>>
    /\ inflight = EmptyDict

Request(op, s, resp, flash, id) ==
    [op |-> op, sess |-> s, resp |-> resp, flash |-> flash, id |-> id, n |-> 0]

(***************************************************************************)
(* Shopping cart.  A cart is a dict from item id to quantity; the session  *)
(* key is str(item_id) and every reader converts it back with int(), so    *)
(* the model keeps the integer.                                            *)
(***************************************************************************)
\* History: what the session did since its last commit, once it has committed.
Note(s, tag) ==
    IF hist[s].committed THEN [hist EXCEPT ![s].since = @ \cup {tag}] ELSE hist

\* Mutant: there is one cart, that of the first session.
Cart_Shared(s) == DictGet(session["s1"], "cart", EmptyDict)

Cart(s) == DictGet(session[s], "cart", EmptyDict)

\* Mutant: the new quantity replaces the old one.
AddedCart_Replace(cart, item_id, quantity) == DictSet(cart, item_id, quantity)

AddedCart(cart, item_id, quantity) ==
    IF item_id \in DOMAIN cart
    THEN [cart EXCEPT ![item_id] = @ + quantity]
    ELSE DictSet(cart, item_id, quantity)

\* Mutant: the quantity is not looked at.
add_to_cart_Unchecked(s, item_id, quantity) ==
    /\ session' = [session EXCEPT
           ![s] = DictSet(@, "cart", AddedCart(Cart(s), item_id, quantity))]
    /\ hist' = Note(s, "add")
    /\ last' = Request("add_to_cart", s, "redirect:menu", "Item added to cart!", 0)
    /\ UNCHANGED <<menu, orders, order_items>>

add_to_cart(s, item_id, quantity) ==
    IF quantity < 1
    THEN /\ last' = Request("add_to_cart", s, "redirect:menu", "Invalid quantity", 0)
         /\ UNCHANGED <<menu, session, orders, order_items, hist>>
    ELSE /\ session' = [session EXCEPT
                ![s] = DictSet(@, "cart", AddedCart(Cart(s), item_id, quantity))]
         /\ hist' = Note(s, "add")
         /\ last' = Request("add_to_cart", s, "redirect:menu", "Item added to cart!", 0)
         /\ UNCHANGED <<menu, orders, order_items>>

\* Mutant: whatever quantity is submitted is stored.
UpdatedCart_StoreAny(cart, item_id, quantity) == DictSet(cart, item_id, quantity)

\* Mutant: a positive quantity is added to the entry.
UpdatedCart_Accumulate(cart, item_id, quantity) ==
    IF quantity > 0
    THEN DictSet(cart, item_id, DictGet(cart, item_id, 0) + quantity)
    ELSE DictPop(cart, item_id)

UpdatedCart(cart, item_id, quantity) ==
    IF quantity > 0
    THEN DictSet(cart, item_id, quantity)
    ELSE DictPop(cart, item_id)

update_cart(s, item_id, quantity) ==
    /\ session' = [session EXCEPT
           ![s] = DictSet(@, "cart", UpdatedCart(Cart(s), item_id, quantity))]
    /\ hist' = IF quantity > 0 THEN Note(s, "update") ELSE hist
    /\ last' = Request("update_cart", s, "redirect:cart", "Cart updated!", 0)
    /\ UNCHANGED <<menu, orders, order_items>>

\* Mutant: the whole cart goes.
remove_from_cart_Clear(s, item_id) ==
    /\ session' = [session EXCEPT ![s] = DictSet(@, "cart", EmptyDict)]
    /\ last' = Request("remove_from_cart", s, "redirect:cart", "Item removed from cart!", 0)
    /\ UNCHANGED <<menu, orders, order_items, hist>>

remove_from_cart(s, item_id) ==
    /\ session' = [session EXCEPT
           ![s] = DictSet(@, "cart", DictPop(Cart(s), item_id))]
    /\ last' = Request("remove_from_cart", s, "redirect:cart", "Item removed from cart!", 0)
    /\ UNCHANGED <<menu, orders, order_items, hist>>

clear_cart(s) ==
    /\ session' = [session EXCEPT ![s] = DictSet(@, "cart", EmptyDict)]
    /\ last' = Request("clear_cart", s, "redirect:cart", "Cart cleared!", 0)
    /\ UNCHANGED <<menu, orders, order_items, hist>>

(***************************************************************************)
(* Menu administration.  A menu item is modelled by its price and its      *)
(* availability flag; name, description and category are submitted valid   *)
(* and are read by no handler of the ordering flow.                        *)
(***************************************************************************)
Methods == {"GET", "POST"}

PriceInputs == {0} \cup Prices

\* MenuItemForm.price: DataRequired (0 is falsy) and NumberRange(min, max);
\* the maximum of 10000 lies beyond the model's prices.
MenuItemFormValid(price) == price # 0 /\ price >= MinPrice

\* History: the items whose price changed while a session held staged details.
NoteEdited(id) ==
    [s \in Sessions |->
        IF "order_details" \in DOMAIN session[s]
        THEN [hist[s] EXCEPT !.edited = @ \cup {id}]
        ELSE hist[s]]

add_menu_item(method, price, available) ==
    IF method = "POST" /\ MenuItemFormValid(price)
    THEN /\ NextId(menu) \in ItemIds
         /\ menu' = DictSet(menu, NextId(menu), [price |-> price, available |-> available])
         /\ last' = Request("add_menu_item", NoSession, "redirect:admin_menu",
                            "Menu item added successfully!", NextId(menu))
         /\ UNCHANGED <<session, orders, order_items, hist>>
    ELSE /\ last' = Request("add_menu_item", NoSession, "render:menu_form", "none", 0)
         /\ UNCHANGED <<menu, session, orders, order_items, hist>>

\* Mutant: a new price is carried into the OrderItems of the item.
edit_menu_item_Repriced(id, method, price, available) ==
    IF id \notin DOMAIN menu
    THEN /\ last' = Request("edit_menu_item", NoSession, "404", "none", id)
         /\ UNCHANGED <<menu, session, orders, order_items, hist>>
    ELSE IF method = "POST" /\ MenuItemFormValid(price)
    THEN /\ menu' = [menu EXCEPT ![id] = [price |-> price, available |-> available]]
         /\ order_items' =
                [x \in DOMAIN order_items |->
                    IF order_items[x].menu_item_id = id
                    THEN [order_items[x] EXCEPT !.price = price]
                    ELSE order_items[x]]
         /\ hist' = IF price # menu[id].price THEN NoteEdited(id) ELSE hist
         /\ last' = Request("edit_menu_item", NoSession, "redirect:admin_menu",
                            "Menu item updated successfully!", id)
         /\ UNCHANGED <<session, orders>>
    ELSE /\ last' = Request("edit_menu_item", NoSession, "render:menu_form", "none", id)
         /\ UNCHANGED <<menu, session, orders, order_items, hist>>

edit_menu_item(id, method, price, available) ==
    IF id \notin DOMAIN menu
    THEN /\ last' = Request("edit_menu_item", NoSession, "404", "none", id)
         /\ UNCHANGED <<menu, session, orders, order_items, hist>>
    ELSE IF method = "POST" /\ MenuItemFormValid(price)
    THEN /\ menu' = [menu EXCEPT ![id] = [price |-> price, available |-> available]]
         /\ hist' = IF price # menu[id].price THEN NoteEdited(id) ELSE hist
         /\ last' = Request("edit_menu_item", NoSession, "redirect:admin_menu",
                            "Menu item updated successfully!", id)
         /\ UNCHANGED <<session, orders, order_items>>
    ELSE /\ last' = Request("edit_menu_item", NoSession, "render:menu_form", "none", id)
         /\ UNCHANGED <<menu, session, orders, order_items, hist>>

delete_menu_item(id) ==
    IF id \notin DOMAIN menu
    THEN /\ last' = Request("delete_menu_item", NoSession, "404", "none", id)
         /\ UNCHANGED <<menu, session, orders, order_items, hist>>
    ELSE /\ menu' = DictPop(menu, id)
         /\ last' = Request("delete_menu_item", NoSession, "redirect:admin_menu",
                            "Menu item deleted successfully!", id)
         /\ UNCHANGED <<session, orders, order_items, hist>>

(***************************************************************************)
(* Form validation.  A text field holds a string; Spell gives the          *)
(* characters of each string the model submits.                            *)
(***************************************************************************)
Spell ==
    [str \in {"Jo", "Al", "J", "j@x.ie", "jx.ie", "+1234567890", "123", "1 Main St.", "Short"} |->
        CASE str = "Jo" -> <<"J", "o">>
          [] str = "Al" -> <<"A", "l">>
          [] str = "J" -> <<"J">>
          [] str = "j@x.ie" -> <<"j", "@", "x", ".", "i", "e">>
          [] str = "jx.ie" -> <<"j", "x", ".", "i", "e">>
          [] str = "+1234567890" -> <<"+", "1", "2", "3", "4", "5", "6", "7", "8", "9", "0">>
          [] str = "123" -> <<"1", "2", "3">>
          [] str = "1 Main St." -> <<"1", " ", "M", "a", "i", "n", " ", "S", "t", ".">>
          [] str = "Short" -> <<"S", "h", "o", "r", "t">>]

Digits == {"0", "1", "2", "3", "4", "5", "6", "7", "8", "9"}

Chars(seq) == {seq[i] : i \in 1..Len(seq)}

\* validate_phone: ^\+?[\d\s\-]{10,15}$
validate_phone(data) ==
    LET text == Spell[data]
        body == IF Len(text) > 0 /\ text[1] = "+" THEN Tail(text) ELSE text
    IN  /\ Len(body) >= PhoneMin
        /\ Len(body) <= PhoneMax
        /\ Chars(body) \subseteq Digits \cup {" ", "-"}

\* wtforms Email: one "@" after a non-empty local part, a dotted domain after it.
ValidEmail(data) ==
    LET text == Spell[data]
    IN  \E i \in 2..Len(text) :
            /\ text[i] = "@"
            /\ \A j \in 1..Len(text) : text[j] = "@" => j = i
            /\ \E k \in (i + 2)..(Len(text) - 1) : text[k] = "."

\* Mutant: the phone number is not validated.
OrderFormValid_AnyPhone(form) ==
    /\ Len(Spell[form.customer_name]) >= NameMin
    /\ Len(Spell[form.customer_name]) <= NameMax
    /\ ValidEmail(form.customer_email)
    /\ Len(Spell[form.customer_address]) >= AddressMin
    /\ Len(Spell[form.customer_address]) <= AddressMax

OrderFormValid(form) ==
    /\ Len(Spell[form.customer_name]) >= NameMin
    /\ Len(Spell[form.customer_name]) <= NameMax
    /\ ValidEmail(form.customer_email)
    /\ Len(Spell[form.customer_phone]) > 0
    /\ validate_phone(form.customer_phone)
    /\ Len(Spell[form.customer_address]) >= AddressMin
    /\ Len(Spell[form.customer_address]) <= AddressMax

NameInputs == {"Jo", "J"}
EmailInputs == {"j@x.ie", "jx.ie"}
PhoneInputs == {"+1234567890", "123"}
AddressInputs == {"1 Main St.", "Short"}

AllOrderForms ==
    [customer_name : NameInputs, customer_email : EmailInputs,
     customer_phone : PhoneInputs, customer_address : AddressInputs]

\* The submissions tried: the valid ones and those with exactly one bad field.
OrderFormInputs ==
    {f \in AllOrderForms :
        Cardinality({g \in AllOrderForms :
            /\ OrderFormValid(g)
            /\ Cardinality({k \in DOMAIN f : f[k] # g[k]}) <= 1}) > 0}

PaymentMethods == {"card", "cash"}

\* PaymentForm: payment_method must be one of the choices; the card fields
\* are only limited in length, so the model keeps their lengths.
PaymentFormValid(form) ==
    /\ form.payment_method \in PaymentMethods
    /\ form.card_number <= CardNumberMax
    /\ form.card_expiry <= CardExpiryMax
    /\ form.card_cvv <= CardCvvMax

PaymentFormInputs ==
    [payment_method : PaymentMethods \cup {""}, card_number : {0},
     card_expiry : {0}, card_cvv : {0}]
    \cup [payment_method : {"card"}, card_number : {CardNumberMax + 1},
          card_expiry : {0}, card_cvv : {0}]

(***************************************************************************)
(* Checkout staging.                                                       *)
(***************************************************************************)
\* The cart entries whose MenuItem.query.get() finds a row.
Surviving(cart, m) == {i \in DOMAIN cart : i \in DOMAIN m}

\* Mutant: every unit is charged the lowest price.
CartTotal_UnitPrice(cart, m) ==
    SumOver(Surviving(cart, m), [i \in Surviving(cart, m) |-> MinPrice * cart[i]])

CartTotal(cart, m) ==
    SumOver(Surviving(cart, m), [i \in Surviving(cart, m) |-> m[i].price * cart[i]])

StagedDetails(form, total) ==
    [customer_name |-> form.customer_name,
     customer_email |-> form.customer_email,
     customer_phone |-> form.customer_phone,
     customer_address |-> form.customer_address,
     total |-> total]

\* Mutant: the cart is not looked at before the form.
checkout_Unguarded(s, method, form) ==
    IF method = "POST" /\ OrderFormValid(form)
    THEN /\ session' = [session EXCEPT
                ![s] = DictSet(@, "order_details",
                               StagedDetails(form, CartTotal(Cart(s), menu)))]
         /\ hist' = [Note(s, "stage") EXCEPT ![s].edited = {}]
         /\ last' = Request("checkout", s, "redirect:payment", "none", 0)
         /\ UNCHANGED <<menu, orders, order_items>>
    ELSE /\ last' = Request("checkout", s, "render:checkout", "none", 0)
         /\ UNCHANGED <<menu, session, orders, order_items, hist>>

checkout(s, method, form) ==
    IF ~Truthy(Cart(s))
    THEN /\ last' = Request("checkout", s, "redirect:menu", "Your cart is empty!", 0)
         /\ UNCHANGED <<menu, session, orders, order_items, hist>>
    ELSE IF method = "POST" /\ OrderFormValid(form)
    THEN /\ session' = [session EXCEPT
                ![s] = DictSet(@, "order_details",
                               StagedDetails(form, CartTotal(Cart(s), menu)))]
         /\ hist' = [Note(s, "stage") EXCEPT ![s].edited = {}]
         /\ last' = Request("checkout", s, "redirect:payment", "none", 0)
         /\ UNCHANGED <<menu, orders, order_items>>
    ELSE /\ last' = Request("checkout", s, "render:checkout", "none", 0)
         /\ UNCHANGED <<menu, session, orders, order_items, hist>>

(***************************************************************************)
(* Payment: the commit of an Order and its OrderItems.                     *)
(***************************************************************************)
\* Mutant: every order is marked paid.
PaymentStatus_AlwaysPaid(payment_method) == "paid"

PaymentStatus(payment_method) == IF payment_method = "card" THEN "paid" ELSE "pending"

\* Mutant: status is left to the column default of the model class.
NewOrder_DefaultStatus(order_details, form) ==
    [customer_name |-> order_details.customer_name,
     customer_email |-> order_details.customer_email,
     customer_phone |-> order_details.customer_phone,
     customer_address |-> order_details.customer_address,
     total_amount |-> order_details.total,
     payment_method |-> form.payment_method,
     status |-> "pending",
     payment_status |-> PaymentStatus(form.payment_method)]

\* Mutant: the total is computed again from the cart and the catalog at commit.
NewOrder_Recomputed(order_details, form) ==
    LET s == CHOOSE c \in Sessions :
                 DictGet(session[c], "order_details", EmptyDict) = order_details
    IN  [customer_name |-> order_details.customer_name,
         customer_email |-> order_details.customer_email,
         customer_phone |-> order_details.customer_phone,
         customer_address |-> order_details.customer_address,
         total_amount |-> CartTotal(Cart(s), menu),
         payment_method |-> form.payment_method,
         status |-> "confirmed",
         payment_status |-> PaymentStatus(form.payment_method)]

NewOrder(order_details, form) ==
    [customer_name |-> order_details.customer_name,
     customer_email |-> order_details.customer_email,
     customer_phone |-> order_details.customer_phone,
     customer_address |-> order_details.customer_address,
     total_amount |-> order_details.total,
     payment_method |-> form.payment_method,
     status |-> "confirmed",
     payment_status |-> PaymentStatus(form.payment_method)]

\* The position of item i among the surviving cart entries (the loop's order).
Rank(S, i) == Cardinality({j \in S : j <= i})

ItemWithRank(S, r) == CHOOSE i \in S : Rank(S, i) = r

\* Mutant: every line is stored with quantity 1.
NewOrderItems_UnitQuantity(order_id, cart_items, m, items) ==
    LET S == Surviving(cart_items, m)
        base == NextId(items) - 1
    IN  [id \in (base + 1)..(base + Cardinality(S)) |->
            LET i == ItemWithRank(S, id - base)
            IN  [order_id |-> order_id,
                 menu_item_id |-> i,
                 quantity |-> 1,
                 price |-> m[i].price]]

\* Mutant: the price is the one the item was seeded with, not the current one.
NewOrderItems_StalePrice(order_id, cart_items, m, items) ==
    LET S == Surviving(cart_items, m)
        base == NextId(items) - 1
    IN  [id \in (base + 1)..(base + Cardinality(S)) |->
            LET i == ItemWithRank(S, id - base)
            IN  [order_id |-> order_id,
                 menu_item_id |-> i,
                 quantity |-> cart_items[i],
                 price |-> SeedMenu[i].price]]

\* The OrderItem rows the loop over cart_items adds, keyed by their new ids.
NewOrderItems(order_id, cart_items, m, items) ==
    LET S == Surviving(cart_items, m)
        base == NextId(items) - 1
    IN  [id \in (base + 1)..(base + Cardinality(S)) |->
            LET i == ItemWithRank(S, id - base)
            IN  [order_id |-> order_id,
                 menu_item_id |-> i,
                 quantity |-> cart_items[i],
                 price |-> m[i].price]]

Merge(f, g) == [x \in (DOMAIN f) \cup (DOMAIN g) |-> IF x \in DOMAIN g THEN g[x] ELSE f[x]]

\* Mutant: only the staged details are popped.
ClearedSession_KeepCart(sess) == DictPop(sess, "order_details")

\* Mutant: nothing is popped.
ClearedSession_KeepAll(sess) == sess

\* session.pop('cart', None); session.pop('order_details', None)
ClearedSession(sess) == DictPop(DictPop(sess, "cart"), "order_details")

\* Mutant: only the staged details are looked at.
CheckoutIncomplete_DetailsOnly(order_details, cart_items) == ~Truthy(order_details)

\* if not order_details or not cart_items
CheckoutIncomplete(order_details, cart_items) ==
    ~Truthy(order_details) \/ ~Truthy(cart_items)

\* Where persistence may fail: nowhere, at db.session.flush(), at db.session.commit().
DbFailures == {"none", "flush", "commit"}

\* Mutant: what was added before the failure stays.
RolledBack_Partial(committed, pending) == pending

\* An exception leaves the handler before anything was committed: the request's
\* transaction is rolled back and the table is what it was.
RolledBack(committed, pending) == committed

payment(s, method, form, db_fail) ==
    LET order_details == DictGet(session[s], "order_details", EmptyDict)
        cart_items == Cart(s)
        order_id == NextId(orders)
        pending_orders == DictSet(orders, order_id, NewOrder(order_details, form))
        pending_items ==
            IF db_fail = "flush" THEN order_items
            ELSE Merge(order_items, NewOrderItems(order_id, cart_items, menu, order_items))
    IN
    IF CheckoutIncomplete(order_details, cart_items)
    THEN /\ db_fail = "none"
         /\ last' = Request("payment", s, "redirect:checkout",
                            "Please complete checkout first!", 0)
         /\ UNCHANGED <<menu, session, orders, order_items, hist>>
    ELSE IF method = "POST" /\ PaymentFormValid(form)
    THEN /\ order_id <= MaxOrders
         /\ IF db_fail # "none"
            THEN /\ orders' = RolledBack(orders, pending_orders)
                 /\ order_items' = RolledBack(order_items, pending_items)
                 /\ last' = Request("payment", s, "500", db_fail, 0)
                 /\ UNCHANGED <<menu, session, hist>>
            ELSE /\ orders' = pending_orders
                 /\ order_items' = pending_items
                 /\ session' = [session EXCEPT ![s] = ClearedSession(@)]
                 /\ hist' = [hist EXCEPT ![s].since = {}, ![s].committed = TRUE]
                 /\ last' = [Request("payment", s, "redirect:order_confirmation",
                                     "Order placed successfully!", order_id)
                                EXCEPT !.n = Cardinality(DOMAIN cart_items)]
                 /\ UNCHANGED menu
    ELSE /\ db_fail = "none"
         /\ last' = Request("payment", s, "render:payment", "none", 0)
         /\ UNCHANGED <<menu, session, orders, order_items, hist>>

(***************************************************************************)
(* The cart view.                                                          *)
(***************************************************************************)
\* Mutant: an entry whose MenuItem is gone is still charged, at the lowest price.
CartView_ChargeDeleted(cart_items, m) ==
    LET listed == {i \in DOMAIN cart_items : i \in DOMAIN m}
    IN  [items |-> [i \in listed |->
                      [id |-> i, price |-> m[i].price, quantity |-> cart_items[i],
                       subtotal |-> m[i].price * cart_items[i]]],
         total |-> SumOver(DOMAIN cart_items,
                           [i \in DOMAIN cart_items |->
                               (IF i \in DOMAIN m THEN m[i].price ELSE 1) * cart_items[i]])]

\* What cart.html is rendered with: a line per cart entry whose MenuItem is
\* found, and the total accumulated over those lines.
CartView(cart_items, m) ==
    LET listed == {i \in DOMAIN cart_items : i \in DOMAIN m}
    IN  [items |-> [i \in listed |->
                      [id |-> i, price |-> m[i].price, quantity |-> cart_items[i],
                       subtotal |-> m[i].price * cart_items[i]]],
         total |-> SumOver(listed, [i \in listed |-> m[i].price * cart_items[i]])]

\* The view reads the session and the catalog and writes nothing.
cart(s) ==
    /\ last' = Request("cart", s, "render:cart", "none", 0)
    /\ UNCHANGED <<menu, session, orders, order_items, hist>>

(***************************************************************************)
(* Order administration.                                                   *)
(***************************************************************************)
\* Mutant: one more status is accepted.
valid_statuses_Shipped ==
    {"pending", "confirmed", "preparing", "delivered", "cancelled", "shipped"}

valid_statuses == {"pending", "confirmed", "preparing", "delivered", "cancelled"}

\* "none" stands for a request without a status field.
StatusInputs == valid_statuses \cup {"shipped", "none"}

\* Mutant: a delivered or cancelled Order keeps its status.
update_order_status_Terminal(order_id, new_status) ==
    IF order_id \notin DOMAIN orders
    THEN /\ last' = Request("update_order_status", NoSession, "404", "none", order_id)
         /\ UNCHANGED <<menu, session, orders, order_items, hist>>
    ELSE IF new_status \in valid_statuses /\ orders[order_id].status \notin {"delivered", "cancelled"}
    THEN /\ orders' = [orders EXCEPT ![order_id].status = new_status]
         /\ last' = Request("update_order_status", NoSession, "redirect:order_detail",
                            "Order status updated!", order_id)
         /\ UNCHANGED <<menu, session, order_items, hist>>
    ELSE /\ last' = Request("update_order_status", NoSession, "redirect:order_detail",
                            "none", order_id)
         /\ UNCHANGED <<menu, session, orders, order_items, hist>>

update_order_status(order_id, new_status) ==
    IF order_id \notin DOMAIN orders
    THEN /\ last' = Request("update_order_status", NoSession, "404", "none", order_id)
         /\ UNCHANGED <<menu, session, orders, order_items, hist>>
    ELSE IF new_status \in valid_statuses
    THEN /\ orders' = [orders EXCEPT ![order_id].status = new_status]
         /\ last' = Request("update_order_status", NoSession, "redirect:order_detail",
                            "Order status updated!", order_id)
         /\ UNCHANGED <<menu, session, order_items, hist>>
    ELSE /\ last' = Request("update_order_status", NoSession, "redirect:order_detail",
                            "none", order_id)
         /\ UNCHANGED <<menu, session, orders, order_items, hist>>

\* Mutant: the Order has no items to take with it.
ItemsOf_None(order_id, items) == {}

\* cascade='all, delete-orphan': the Order's items go with it.
ItemsOf(order_id, items) == {id \in DOMAIN items : items[id].order_id = order_id}

delete_order(order_id) ==
    IF order_id \notin DOMAIN orders
    THEN /\ last' = Request("delete_order", NoSession, "404", "none", order_id)
         /\ UNCHANGED <<menu, session, orders, order_items, hist>>
    ELSE /\ orders' = DictPop(orders, order_id)
         /\ order_items' =
                [id \in (DOMAIN order_items) \ ItemsOf(order_id, order_items) |->
                    order_items[id]]
         /\ last' = Request("delete_order", NoSession, "redirect:orders",
                            "Order deleted!", order_id)
         /\ UNCHANGED <<menu, session, hist>>

(***************************************************************************)
(* Reading the ledger.                                                     *)
(***************************************************************************)
\* Order.query.get_or_404(order_id), then the page of the Order.
order_detail(order_id) ==
    /\ last' = Request("order_detail", NoSession,
                       IF order_id \in DOMAIN orders THEN "render:order_detail" ELSE "404",
                       "none", order_id)
    /\ UNCHANGED <<menu, session, orders, order_items, hist>>

\* The same lookup, answered with Order.to_dict() as JSON.
api_order(order_id) ==
    /\ last' = Request("api_order", NoSession,
                       IF order_id \in DOMAIN orders THEN "json:order" ELSE "404",
                       "none", order_id)
    /\ UNCHANGED <<menu, session, orders, order_items, hist>>

\* Mutant: an unknown order id is a hard not-found.
track_order_Strict(method, given, order_id) ==
    LET looked_up == method = "POST" /\ given
        found == looked_up /\ order_id \in DOMAIN orders
    IN  /\ last' = Request("track_order", NoSession,
                           IF looked_up /\ ~found THEN "404" ELSE "render:track_order",
                           "none", IF found THEN order_id ELSE 0)
        /\ UNCHANGED <<menu, session, orders, order_items, hist>>

\* given says whether the form carried a non-empty order_id; last.id is the
\* Order the page is rendered with, 0 for order = None.
track_order(method, given, order_id) ==
    LET looked_up == method = "POST" /\ given
        found == looked_up /\ order_id \in DOMAIN orders
    IN  /\ last' = Request("track_order", NoSession, "render:track_order",
                           IF looked_up /\ ~found THEN "Order not found!" ELSE "none",
                           IF found THEN order_id ELSE 0)
        /\ UNCHANGED <<menu, session, orders, order_items, hist>>

(***************************************************************************)
(* The application: any client may send any request at any time.           *)
(***************************************************************************)
NoForm == [none |-> TRUE]

CheckoutRequests ==
    [method : {"GET"}, form : {NoForm}] \cup [method : {"POST"}, form : OrderFormInputs]

PaymentRequests ==
    [method : {"GET"}, form : {NoForm}] \cup [method : {"POST"}, form : PaymentFormInputs]

MenuItemRequests ==
    [method : {"GET"}, price : {0}, available : {FALSE}]
    \cup [method : {"POST"}, price : PriceInputs, available : BOOLEAN]

\* One more request is served, up to the bound of the model.
Served == nreq < MaxRequests /\ nreq' = nreq + 1 /\ trail' = trail /\ inflight' = inflight

\* The model follows carts up to a largest quantity per entry.
Fits(s, item_id, quantity, cap) ==
    quantity < 1 \/ DictGet(Cart(s), item_id, 0) + quantity <= cap

Next ==
    \/ \E s \in Sessions : Served /\ cart(s)
    \/ \E s \in Sessions, i \in ItemIds, q \in Quantities :
          Served /\ Fits(s, i, q, MaxCartQty) /\ add_to_cart(s, i, q)
    \/ \E s \in Sessions, i \in ItemIds, q \in Quantities : Served /\ update_cart(s, i, q)
    \/ \E s \in Sessions, i \in ItemIds : Served /\ remove_from_cart(s, i)
    \/ \E s \in Sessions : Served /\ clear_cart(s)
    \/ \E s \in Sessions, r \in CheckoutRequests : Served /\ checkout(s, r.method, r.form)
    \/ \E s \in Sessions, r \in PaymentRequests, d \in DbFailures :
          Served /\ payment(s, r.method, r.form, d)
    \/ \E r \in MenuItemRequests : Served /\ add_menu_item(r.method, r.price, r.available)
    \/ \E i \in ItemIds, r \in MenuItemRequests :
          Served /\ edit_menu_item(i, r.method, r.price, r.available)
    \/ \E i \in ItemIds : Served /\ delete_menu_item(i)
    \/ \E o \in OrderIds, st \in StatusInputs : Served /\ update_order_status(o, st)
    \/ \E o \in OrderIds : Served /\ delete_order(o)

Spec == Init /\ [][Next]_vars

(***************************************************************************)
(* The same application with its requests traced: trail keeps the latest   *)
(* two requests, each with its inputs, the session dict it found, the      *)
(* Order it was about and, for the cart view, what was rendered.           *)
(***************************************************************************)
NoView == [items |-> EmptyDict, total |-> 0]

Entry(op, s, id, quantity, method, form, status) ==
    [op |-> op, sess |-> s, id |-> id, quantity |-> quantity, method |-> method,
     form |-> form, status |-> status,
     before |-> IF s \in Sessions THEN session[s] ELSE EmptyDict,
     order |-> IF /\ id \in DOMAIN orders
                  /\ \/ op \in {"update_order_status", "delete_order", "order_detail",
                                 "api_order"}
                     \/ op = "track_order" /\ method = "POST"
               THEN DictSet(EmptyDict, id, orders[id]) ELSE EmptyDict,
     lines |-> IF op \in {"order_detail", "api_order", "track_order"}
               THEN {order_items[x] : x \in ItemsOf(id, order_items)} ELSE {},
     view |-> IF op = "cart" THEN CartView(Cart(s), menu) ELSE NoView]

Recent(seq) == IF Len(seq) > 2 THEN Tail(seq) ELSE seq

Traced(entry) ==
    /\ nreq < MaxTraced
    /\ nreq' = nreq + 1
    /\ trail' = Recent(Append(trail, entry))
    /\ inflight' = inflight

\* The menu edits of the traced runs: valid submissions that keep the item available.
TracedEdits == [method : {"POST"}, price : Prices, available : {TRUE}]

TraceNext ==
    \/ \E s \in Sessions :
          Traced(Entry("cart", s, 0, 0, "GET", NoForm, "none")) /\ cart(s)
    \/ \E s \in Sessions, i \in ItemIds, q \in Quantities :
          /\ Traced(Entry("add_to_cart", s, i, q, "POST", NoForm, "none"))
          /\ Fits(s, i, q, MaxTracedQty)
          /\ add_to_cart(s, i, q)
    \/ \E s \in Sessions, i \in ItemIds, q \in Quantities :
          Traced(Entry("update_cart", s, i, q, "POST", NoForm, "none")) /\ update_cart(s, i, q)
    \/ \E s \in Sessions, i \in ItemIds :
          Traced(Entry("remove_from_cart", s, i, 0, "POST", NoForm, "none"))
          /\ remove_from_cart(s, i)
    \/ \E s \in Sessions :
          Traced(Entry("clear_cart", s, 0, 0, "POST", NoForm, "none")) /\ clear_cart(s)
    \/ \E s \in Sessions, r \in CheckoutRequests :
          Traced(Entry("checkout", s, 0, 0, r.method, r.form, "none"))
          /\ checkout(s, r.method, r.form)
    \/ \E s \in Sessions, r \in PaymentRequests :
          Traced(Entry("payment", s, 0, 0, r.method, r.form, "none"))
          /\ payment(s, r.method, r.form, "none")
    \/ \E i \in ItemIds, r \in TracedEdits :
          Traced(Entry("edit_menu_item", NoSession, i, 0, r.method, NoForm, "none"))
          /\ edit_menu_item(i, r.method, r.price, r.available)
    \/ \E i \in ItemIds :
          Traced(Entry("delete_menu_item", NoSession, i, 0, "POST", NoForm, "none"))
          /\ delete_menu_item(i)
    \/ \E o \in OrderIds, st \in StatusInputs :
          Traced(Entry("update_order_status", NoSession, o, 0, "POST", NoForm, st))
          /\ update_order_status(o, st)

TraceSpec == Init /\ [][TraceNext]_vars

(***************************************************************************)
(* The ledger under administration, traced and started with two Orders:    *)
(* the state after session s1 has placed Order 1 for two units of item 1,  *)
(* paid by card, and then Order 2 for one unit of each item, to be paid in *)
(* cash.                                                                   *)
(***************************************************************************)
LedgerInit ==
    LET form == CHOOSE f \in OrderFormInputs : OrderFormValid(f)
        pay(m) == [payment_method |-> m, card_number |-> 0, card_expiry |-> 0,
                   card_cvv |-> 0]
        cart1 == DictSet(EmptyDict, 1, 2)
        cart2 == DictSet(DictSet(EmptyDict, 1, 1), 2, 1)
        order1 == NewOrder(StagedDetails(form, CartTotal(cart1, SeedMenu)), pay("card"))
        order2 == NewOrder(StagedDetails(form, CartTotal(cart2, SeedMenu)), pay("cash"))
        items1 == NewOrderItems(1, cart1, SeedMenu, EmptyDict)
    IN  /\ menu = SeedMenu
        /\ session = [s \in Sessions |-> EmptyDict]
        /\ orders = DictSet(DictSet(EmptyDict, 1, order1), 2, order2)
        /\ order_items = Merge(items1, NewOrderItems(2, cart2, SeedMenu, items1))
        /\ last = [Request("payment", "s1", "redirect:order_confirmation",
                           "Order placed successfully!", 2) EXCEPT !.n = 2]
        /\ hist = [s \in Sessions |-> [NoHist EXCEPT !.committed = TRUE]]
        /\ nreq = 0
        /\ trail = <<>>
        /\ inflight = EmptyDict

\* The order ids requested: those of the ledger and one beyond them.
LookupIds == OrderIds \cup {MaxOrders + 1}

\* The tracking lookups: the form page, a submission without an order_id, and
\* submissions with one.
TrackRequests ==
    [method : Methods, given : {FALSE}, order_id : {0}]
    \cup [method : {"POST"}, given : {TRUE}, order_id : LookupIds]

LedgerNext ==
    \/ \E o \in LookupIds, st \in StatusInputs :
          Traced(Entry("update_order_status", NoSession, o, 0, "POST", NoForm, st))
          /\ update_order_status(o, st)
    \/ \E o \in LookupIds :
          Traced(Entry("delete_order", NoSession, o, 0, "POST", NoForm, "none"))
          /\ delete_order(o)
    \/ \E o \in LookupIds :
          Traced(Entry("order_detail", NoSession, o, 0, "GET", NoForm, "none"))
          /\ order_detail(o)
    \/ \E o \in LookupIds :
          Traced(Entry("api_order", NoSession, o, 0, "GET", NoForm, "none"))
          /\ api_order(o)
    \/ \E r \in TrackRequests :
          Traced(Entry("track_order", NoSession, r.order_id, 0, r.method, NoForm, "none"))
          /\ track_order(r.method, r.given, r.order_id)
    \/ \E i \in ItemIds :
          Traced(Entry("delete_menu_item", NoSession, i, 0, "POST", NoForm, "none"))
          /\ delete_menu_item(i)

LedgerSpec == LedgerInit /\ [][LedgerNext]_vars

(***************************************************************************)
(* Two clients, each with a session of its own, shopping at the same time. *)
(***************************************************************************)
Clients == {"s1", "s2"}

IsolationInit ==
    /\ menu = SeedMenu
    /\ session = [s \in Clients |-> EmptyDict]
    /\ orders = EmptyDict
    /\ order_items = EmptyDict
    /\ last = NoRequest
    /\ hist = [s \in Clients |-> NoHist]
    /\ nreq = 0
    /\ trail = <<>>
    /\ inflight = EmptyDict

\* The checkout submissions of the two clients: valid, under two names.
ClientForms ==
    {f \in [customer_name : {"Jo", "Al"}, customer_email : EmailInputs,
            customer_phone : PhoneInputs, customer_address : AddressInputs] :
        OrderFormValid(f)}

ClientPayments == {f \in PaymentFormInputs : PaymentFormValid(f)}

IsolationNext ==
    \/ \E s \in Clients, i \in ItemIds, q \in Quantities :
          Served /\ Fits(s, i, q, MaxCartQty) /\ add_to_cart(s, i, q)
    \/ \E s \in Clients, i \in ItemIds, q \in Quantities : Served /\ update_cart(s, i, q)
    \/ \E s \in Clients, i \in ItemIds : Served /\ remove_from_cart(s, i)
    \/ \E s \in Clients : Served /\ clear_cart(s)
    \/ \E s \in Clients, f \in ClientForms : Served /\ checkout(s, "POST", f)
    \/ \E s \in Clients, f \in ClientPayments : Served /\ payment(s, "POST", f, "none")

IsolationSpec == IsolationInit /\ [][IsolationNext]_vars

(***************************************************************************)
(* Payment served by concurrent workers.  A worker loads the session from  *)
(* the request's cookie, inserts the Order at db.session.flush() inside    *)
(* its own transaction, adds the OrderItems and commits, and answers with  *)
(* the cookie of the session it has cleared.  The flush takes the write    *)
(* lock of the SQLite database and the commit releases it.                 *)
(***************************************************************************)
Workers == {"w1", "w2"}

\* One more step is taken, by a handler that leaves the trace alone.
Quiet == nreq < MaxSteps /\ nreq' = nreq + 1 /\ trail' = trail

\* One more step is taken, by a request that is traced: the latest one is kept.
Watched(entry) ==
    /\ nreq < MaxSteps
    /\ nreq' = nreq + 1
    /\ trail' = <<entry>>
    /\ inflight' = inflight

\* Mutant: other connections read the uncommitted row.
AfterFlush_Dirty(table, order_id, order) == DictSet(table, order_id, order)

\* What the other connections read of the table after a flush: the committed
\* rows, without the Order inserted by the open transaction.
AfterFlush(table, order_id, order) == table

WriteLocked == \E w \in DOMAIN inflight : inflight[w].pc = "flushed"

\* session.get(...), the guard and form.validate_on_submit() of a submission
\* that passes both.
payment_begin(w, s, form) ==
    /\ w \notin DOMAIN inflight
    /\ ~CheckoutIncomplete(DictGet(session[s], "order_details", EmptyDict), Cart(s))
    /\ PaymentFormValid(form)
    /\ inflight' = DictSet(inflight, w,
           [sess |-> s, copy |-> session[s], form |-> form, pc |-> "validated",
            order_id |-> 0])
    /\ UNCHANGED <<menu, session, orders, order_items, last, hist>>

\* Order(...), db.session.add(order), db.session.flush()
payment_flush(w) ==
    /\ w \in DOMAIN inflight
    /\ inflight[w].pc = "validated"
    /\ ~WriteLocked
    /\ NextId(orders) <= MaxOrders
    /\ inflight' = [inflight EXCEPT ![w].pc = "flushed", ![w].order_id = NextId(orders)]
    /\ orders' = AfterFlush(orders, NextId(orders),
                            NewOrder(inflight[w].copy["order_details"], inflight[w].form))
    /\ UNCHANGED <<menu, session, order_items, last, hist>>

\* The flush of a worker that finds the database locked until its busy
\* timeout: the exception ends the request and the session is left alone.
payment_locked(w) ==
    /\ w \in DOMAIN inflight
    /\ inflight[w].pc = "validated"
    /\ WriteLocked
    /\ inflight' = DictPop(inflight, w)
    /\ last' = Request("payment", inflight[w].sess, "500", "flush", 0)
    /\ UNCHANGED <<menu, session, orders, order_items, hist>>

\* The loop over cart_items and db.session.commit()
payment_commit(w) ==
    /\ w \in DOMAIN inflight
    /\ inflight[w].pc = "flushed"
    /\ inflight' = [inflight EXCEPT ![w].pc = "committed"]
    /\ orders' = DictSet(orders, inflight[w].order_id,
                         NewOrder(inflight[w].copy["order_details"], inflight[w].form))
    /\ order_items' = Merge(order_items,
                            NewOrderItems(inflight[w].order_id,
                                          DictGet(inflight[w].copy, "cart", EmptyDict),
                                          menu, order_items))
    /\ UNCHANGED <<menu, session, last, hist>>

\* session.pop(...) twice, flash and redirect: the response replaces the
\* client's cookie by the session this worker loaded, cleared.
payment_respond(w) ==
    /\ w \in DOMAIN inflight
    /\ inflight[w].pc = "committed"
    /\ inflight' = DictPop(inflight, w)
    /\ session' = [session EXCEPT ![inflight[w].sess] = ClearedSession(inflight[w].copy)]
    /\ hist' = [hist EXCEPT ![inflight[w].sess].since = {},
                            ![inflight[w].sess].committed = TRUE]
    /\ last' = [Request("payment", inflight[w].sess, "redirect:order_confirmation",
                        "Order placed successfully!", inflight[w].order_id)
                   EXCEPT !.n = Cardinality(DOMAIN DictGet(inflight[w].copy, "cart", EmptyDict))]
    /\ UNCHANGED <<menu, orders, order_items>>

\* The checkout submissions that pass validation.
ValidForms == {f \in OrderFormInputs : OrderFormValid(f)}

ConcurrentNext ==
    \/ \E s \in Sessions, i \in ItemIds :
          /\ Quiet /\ inflight' = inflight
          /\ Fits(s, i, 1, MaxCartQty)
          /\ add_to_cart(s, i, 1)
    \/ \E s \in Sessions, f \in ValidForms :
          Quiet /\ inflight' = inflight /\ checkout(s, "POST", f)
    \/ \E w \in Workers, s \in Sessions, f \in ClientPayments :
          Quiet /\ payment_begin(w, s, f)
    \/ \E w \in Workers : Quiet /\ payment_flush(w)
    \/ \E w \in Workers : Quiet /\ payment_locked(w)
    \/ \E w \in Workers : Quiet /\ payment_commit(w)
    \/ \E w \in Workers : Quiet /\ payment_respond(w)
    \/ \E o \in OrderIds :
          Watched(Entry("order_detail", NoSession, o, 0, "GET", NoForm, "none"))
          /\ order_detail(o)
    \/ \E o \in OrderIds :
          Watched(Entry("api_order", NoSession, o, 0, "GET", NoForm, "none"))
          /\ api_order(o)
    \/ \E o \in OrderIds :
          Watched(Entry("track_order", NoSession, o, 0, "POST", NoForm, "none"))
          /\ track_order("POST", TRUE, o)

ConcurrentSpec == Init /\ [][ConcurrentNext]_vars

(***************************************************************************)
(* Properties of the payment commit.                                       *)
(***************************************************************************)
Confirmation == "redirect:order_confirmation"

\* In the state after it: the last request was a payment of s that placed an order.
Committed(s) == last.op = "payment" /\ last.sess = s /\ last.resp = Confirmation

StagedOf(s) == DictGet(session[s], "order_details", EmptyDict)

LineTotal(items, order_id) ==
    SumOver(ItemsOf(order_id, items),
            [id \in ItemsOf(order_id, items) |-> items[id].quantity * items[id].price])

\* C1: a successful payment submission adds exactly one Order, and for the new
\* Order exactly one OrderItem per cart entry whose MenuItem exists, with the
\* entry's quantity; a cart entry whose MenuItem is gone yields no OrderItem.
C1_OneOrderOneItemPerEntry ==
    [][\A s \in Sessions : Committed(s)' =>
        LET new_orders == (DOMAIN orders') \ (DOMAIN orders)
            new_items == (DOMAIN order_items') \ (DOMAIN order_items)
        IN  /\ new_orders = {last'.id}
            /\ \A o \in DOMAIN orders : o \in DOMAIN orders' /\ orders'[o] = orders[o]
            /\ \A id \in DOMAIN order_items :
                  id \in DOMAIN order_items' /\ order_items'[id] = order_items[id]
            /\ \A id \in new_items :
                  /\ order_items'[id].order_id = last'.id
                  /\ order_items'[id].menu_item_id \in DOMAIN Cart(s)
            /\ \A i \in DOMAIN Cart(s) :
                  LET rows == {id \in new_items : order_items'[id].menu_item_id = i}
                  IN  IF i \in DOMAIN menu
                      THEN /\ Cardinality(rows) = 1
                           /\ \A id \in rows : order_items'[id].quantity = Cart(s)[i]
                      ELSE rows = {}]_vars

\* C1, witness: a commit read two cart entries and one of them had lost its MenuItem.
C1_Witness ==
    \E s \in Sessions :
        /\ Committed(s)
        /\ last.n = 2
        /\ Cardinality(ItemsOf(last.id, order_items)) = 1

\* C2: every OrderItem a commit creates carries the catalog price of its
\* MenuItem at the moment of the commit.
C2_PriceAtCommit ==
    \A s \in Sessions : Committed(s) =>
        \A id \in ItemsOf(last.id, order_items) :
            /\ order_items[id].menu_item_id \in DOMAIN menu
            /\ order_items[id].price = menu[order_items[id].menu_item_id].price

\* C2, witness: a committed OrderItem is of an item whose price an admin changed
\* after the checkout staging.
C2_Witness ==
    \E s \in Sessions :
        /\ Committed(s)
        /\ \E id \in ItemsOf(last.id, order_items) :
              order_items[id].menu_item_id \in hist[s].edited

\* C3: right after a commit the session has no cart and no staged details.
C3_ClearedAfterCommit ==
    \A s \in Sessions : Committed(s) =>
        /\ ~Truthy(Cart(s))
        /\ ~Truthy(StagedOf(s))

\* C3, witness: a commit of a card payment has been served.
C3_Witness ==
    \E s \in Sessions :
        /\ Committed(s)
        /\ last.id \in DOMAIN orders
        /\ orders[last.id].payment_method = "card"

\* A payment request of s changed the number of Orders by exactly one if it
\* answered with the confirmation, and not at all otherwise.
OnePerSuccess(s) ==
    (last'.op = "payment" /\ last'.sess = s) =>
        Cardinality(DOMAIN orders') - Cardinality(DOMAIN orders) =
            (IF last'.resp = Confirmation THEN 1 ELSE 0)

\* C4 as stated: after a commit, a payment of the same session creates an Order
\* only after a new add-to-cart and a new successful staging.
C4_Original ==
    [][\A s \in Sessions :
        /\ OnePerSuccess(s)
        /\ (Committed(s)' /\ hist[s].committed) => {"add", "stage"} \subseteq hist[s].since]_vars

\* C4, amended: after a commit, a payment of the same session creates an Order
\* only after a new cart-filling request (add-to-cart, or update-cart with a
\* positive quantity) and a new successful staging; the Orders a session
\* creates are as many as its successful payment submissions.
C4_OncePerSubmission ==
    [][\A s \in Sessions :
        /\ OnePerSuccess(s)
        /\ (Committed(s)' /\ hist[s].committed) =>
              /\ hist[s].since \cap {"add", "update"} # {}
              /\ "stage" \in hist[s].since]_vars

\* C4, witness: a session has placed its second order.
C4_Witness ==
    \E s \in Sessions :
        /\ Committed(s)
        /\ last.id = 2
        /\ DOMAIN orders = {1, 2}

\* C5: payment_status is 'paid' exactly for payment_method 'card'; with 'cash'
\* it is 'pending'.
C5_PaidIffCard ==
    \A o \in DOMAIN orders :
        /\ orders[o].payment_status = "paid" <=> orders[o].payment_method = "card"
        /\ orders[o].payment_method = "cash" => orders[o].payment_status = "pending"

\* C5, witness: the ledger holds a card order and a cash order.
C5_Witness ==
    \E o1, o2 \in DOMAIN orders :
        /\ orders[o1].payment_method = "card"
        /\ orders[o2].payment_method = "cash"

\* C6: an Order is 'confirmed' right after its commit, and an Order becomes
\* 'pending' only by an admin's status update of that Order.
C6_ConfirmedAfterCommit ==
    [][/\ \A s \in Sessions : Committed(s)' => orders'[last'.id].status = "confirmed"
       /\ \A o \in DOMAIN orders' :
            (/\ orders'[o].status = "pending"
             /\ (o \notin DOMAIN orders \/ orders[o].status # "pending"))
            => (last'.op = "update_order_status" /\ last'.id = o)]_vars

\* C6, witness: a cash order, whose payment is pending, has just been committed.
C6_Witness ==
    \E s \in Sessions :
        /\ Committed(s)
        /\ orders[last.id].payment_method = "cash"
        /\ orders[last.id].payment_status = "pending"

\* C7: total_amount of every Order is the sum of quantity x price over its OrderItems.
C7_TotalIsSumOfItems ==
    \A o \in DOMAIN orders : orders[o].total_amount = LineTotal(order_items, o)

\* C8: the total_amount of a committed Order is the total the staged details held.
C8_TotalIsStagedTotal ==
    [][\A s \in Sessions : Committed(s)' =>
        orders'[last'.id].total_amount = StagedOf(s).total]_vars

\* C8, witness: a commit whose total differs from what its OrderItems add up to.
C8_Witness ==
    \E s \in Sessions :
        /\ Committed(s)
        /\ orders[last.id].total_amount # LineTotal(order_items, last.id)

\* C9: a payment that fails at the flush or at the commit leaves the ledger, the
\* cart and the staged details as they were, so that it can be submitted again.
C9_FailureLeavesNothing ==
    [][\A s \in Sessions :
        (last'.op = "payment" /\ last'.sess = s /\ last'.resp = "500") =>
            /\ orders' = orders
            /\ order_items' = order_items
            /\ session' = session
            /\ ~CheckoutIncomplete(StagedOf(s)', Cart(s)')]_vars

\* C9, witness: a payment has failed at the final commit.
C9_Witness ==
    \E s \in Sessions :
        /\ last.op = "payment" /\ last.sess = s /\ last.resp = "500"
        /\ last.flash = "commit"

\* C10: a payment request without staged details or with an empty cart creates
\* no Order and no OrderItem, changes neither cart nor staged details, and
\* redirects to checkout.
C10_IncompleteCheckout ==
    [][\A s \in Sessions :
        (/\ last'.op = "payment" /\ last'.sess = s
         /\ (~Truthy(StagedOf(s)) \/ ~Truthy(Cart(s)))) =>
            /\ orders' = orders
            /\ order_items' = order_items
            /\ session' = session
            /\ last'.resp = "redirect:checkout"]_vars

\* C10, witness: a payment was refused while details were staged and the cart empty.
C10_Witness ==
    \E s \in Sessions :
        /\ last.op = "payment" /\ last.sess = s /\ last.resp = "redirect:checkout"
        /\ Truthy(StagedOf(s))
        /\ ~Truthy(Cart(s))

(***************************************************************************)
(* Properties of checkout staging, read off the trace.                     *)
(***************************************************************************)
\* The latest traced request.
Latest == trail[Len(trail)]

\* In the state after it: the latest traced request was op, sent by s.
Did(op, s) == Len(trail) > 0 /\ Latest.op = op /\ Latest.sess = s

\* The cart and the staged details held by a session dict.
CartIn(dict) == IF "cart" \in DOMAIN dict THEN dict["cart"] ELSE EmptyDict

SameStaged(d1, d2) ==
    /\ "order_details" \in DOMAIN d1 <=> "order_details" \in DOMAIN d2
    /\ "order_details" \in DOMAIN d1 => d1["order_details"] = d2["order_details"]

\* The submitted values that break a constraint of the order form: a name of
\* one character, an email without "@", a phone of three digits, an address
\* of five characters.
InvalidSamples == {"J", "jx.ie", "123", "Short"}

FailsValidation(form) ==
    \E k \in {"customer_name", "customer_email", "customer_phone", "customer_address"} :
        form[k] \in InvalidSamples

\* C11: a checkout request that finds no cart or an empty cart writes no staged
\* details whatever was submitted, leaves the cart empty, and redirects to the
\* menu with the message 'Your cart is empty!'.
C11_EmptyCartNoStaging ==
    \A s \in Sessions :
        (Did("checkout", s) /\ DOMAIN CartIn(Latest.before) = {}) =>
            /\ SameStaged(session[s], Latest.before)
            /\ DOMAIN Cart(s) = {}
            /\ last.resp = "redirect:menu"
            /\ last.flash = "Your cart is empty!"

\* C11, witness: a fully valid form was submitted on an empty cart.
C11_Witness ==
    \E s \in Sessions :
        /\ Did("checkout", s)
        /\ DOMAIN CartIn(Latest.before) = {}
        /\ Latest.method = "POST"
        /\ ~FailsValidation(Latest.form)

\* C12: a checkout submission with a customer field that fails validation stores
\* nothing: the staged details are what they were (absent stays absent, staged
\* stays as staged) and the cart is unchanged.
C12_InvalidStoresNothing ==
    \A s \in Sessions :
        (Did("checkout", s) /\ Latest.method = "POST" /\ FailsValidation(Latest.form)) =>
            /\ SameStaged(session[s], Latest.before)
            /\ Cart(s) = CartIn(Latest.before)

\* C12, witness: an invalid form was submitted over a non-empty cart while
\* details of an earlier checkout were staged.
C12_Witness ==
    \E s \in Sessions :
        /\ Did("checkout", s)
        /\ Latest.method = "POST"
        /\ FailsValidation(Latest.form)
        /\ DOMAIN CartIn(Latest.before) # {}
        /\ "order_details" \in DOMAIN Latest.before

\* C13: a checkout submission with a non-empty cart and valid customer input
\* stages the four submitted fields and a total that is the sum of current
\* catalog price x quantity over the cart entries whose MenuItem exists,
\* replacing what was staged before; the cart is unchanged.
C13_StagesFieldsAndTotal ==
    \A s \in Sessions :
        (/\ Did("checkout", s)
         /\ Latest.method = "POST"
         /\ ~FailsValidation(Latest.form)
         /\ DOMAIN CartIn(Latest.before) # {}) =>
            LET entries == CartIn(Latest.before)
                priced == {i \in DOMAIN entries : i \in DOMAIN menu}
            IN  /\ "order_details" \in DOMAIN session[s]
                /\ DOMAIN session[s]["order_details"] =
                      {"customer_name", "customer_email", "customer_phone",
                       "customer_address", "total"}
                /\ \A k \in DOMAIN Latest.form :
                      session[s]["order_details"][k] = Latest.form[k]
                /\ session[s]["order_details"].total =
                      SumOver(priced, [i \in priced |-> menu[i].price * entries[i]])
                /\ Cart(s) = entries

\* C13, witness: the staging replaced details that held another total.
C13_Witness ==
    \E s \in Sessions :
        /\ Did("checkout", s)
        /\ last.resp = "redirect:payment"
        /\ "order_details" \in DOMAIN Latest.before
        /\ Latest.before["order_details"].total # session[s]["order_details"].total

(***************************************************************************)
(* Properties of the cart.                                                 *)
(***************************************************************************)
\* C14: every entry stored in a session's cart has a quantity of at least 1.
C14_QuantitiesPositive ==
    \A s \in Sessions : \A i \in DOMAIN Cart(s) : Cart(s)[i] \in Nat /\ Cart(s)[i] >= 1

\* C14, witness: an add was refused for its quantity while the cart held entries.
C14_Witness ==
    \E s \in Sessions :
        /\ last.op = "add_to_cart" /\ last.sess = s
        /\ last.flash = "Invalid quantity"
        /\ DOMAIN Cart(s) # {}

\* C15: add(id, q1) directly followed by add(id, q2), both with quantities of at
\* least 1, leaves the quantity of id at q1 + q2 more than it was before the
\* two (at q1 + q2 when id was absent), and leaves every other entry as it was.
C15_AddIsCumulative ==
    \A s \in Sessions :
        (/\ Len(trail) = 2
         /\ trail[1].op = "add_to_cart" /\ trail[2].op = "add_to_cart"
         /\ trail[1].sess = s /\ trail[2].sess = s
         /\ trail[1].id = trail[2].id
         /\ trail[1].quantity >= 1 /\ trail[2].quantity >= 1) =>
            LET was == CartIn(trail[1].before)
                id == trail[1].id
                sum == trail[1].quantity + trail[2].quantity
            IN  /\ DOMAIN Cart(s) = DOMAIN was \cup {id}
                /\ Cart(s)[id] = (IF id \in DOMAIN was THEN was[id] ELSE 0) + sum
                /\ \A j \in DOMAIN was : j # id => Cart(s)[j] = was[j]

\* C15, witness: two adds of an id in a row, onto a cart that held the id and
\* another entry.
C15_Witness ==
    \E s \in Sessions :
        /\ Len(trail) = 2
        /\ trail[1].op = "add_to_cart" /\ trail[2].op = "add_to_cart"
        /\ trail[1].sess = s /\ trail[2].sess = s
        /\ trail[1].id = trail[2].id
        /\ trail[1].quantity >= 1 /\ trail[2].quantity >= 1
        /\ trail[1].id \in DOMAIN CartIn(trail[1].before)
        /\ DOMAIN CartIn(trail[1].before) # {trail[1].id}

\* C16: add(id, q) with q <= 0 is refused: the cart is what it was, and no
\* entry for id is inserted.
C16_NonPositiveAddRejected ==
    \A s \in Sessions :
        (Did("add_to_cart", s) /\ Latest.quantity <= 0) =>
            /\ Cart(s) = CartIn(Latest.before)
            /\ Latest.id \notin DOMAIN CartIn(Latest.before) => Latest.id \notin DOMAIN Cart(s)
            /\ last.flash = "Invalid quantity"

\* C16, witness: an add of quantity 0 for an id the cart did not hold.
C16_Witness ==
    \E s \in Sessions :
        /\ Did("add_to_cart", s)
        /\ Latest.quantity = 0
        /\ Latest.id \notin DOMAIN CartIn(Latest.before)
        /\ DOMAIN CartIn(Latest.before) # {}

\* C17: update(id, q) with q > 0 leaves the quantity of id at exactly q,
\* whatever it was; with q <= 0 it leaves no entry for id, as remove(id) does;
\* the other entries are unchanged.
C17_UpdateReplaces ==
    \A s \in Sessions :
        Did("update_cart", s) =>
            LET was == CartIn(Latest.before)
                id == Latest.id
            IN  /\ \A j \in DOMAIN was : j # id => j \in DOMAIN Cart(s) /\ Cart(s)[j] = was[j]
                /\ IF Latest.quantity > 0
                   THEN /\ DOMAIN Cart(s) = DOMAIN was \cup {id}
                        /\ Cart(s)[id] = Latest.quantity
                   ELSE DOMAIN Cart(s) = DOMAIN was \ {id}

\* C17, witness: an update to a positive quantity of an entry that held another one.
C17_Witness ==
    \E s \in Sessions :
        /\ Did("update_cart", s)
        /\ Latest.quantity > 0
        /\ Latest.id \in DOMAIN CartIn(Latest.before)
        /\ CartIn(Latest.before)[Latest.id] # Latest.quantity
        /\ DOMAIN CartIn(Latest.before) # {Latest.id}

\* C18: remove(id) of an id the cart does not hold is answered like any other
\* remove and leaves the cart unchanged; remove(id) of an id the cart holds
\* removes that entry and no other.
C18_RemoveExactlyThat ==
    \A s \in Sessions :
        Did("remove_from_cart", s) =>
            LET was == CartIn(Latest.before)
            IN  /\ last.resp = "redirect:cart"
                /\ DOMAIN Cart(s) = DOMAIN was \ {Latest.id}
                /\ \A j \in DOMAIN Cart(s) : Cart(s)[j] = was[j]
                /\ Latest.id \notin DOMAIN was => Cart(s) = was

\* C18, witness: a remove of an id that a non-empty cart did not hold.
C18_Witness ==
    \E s \in Sessions :
        /\ Did("remove_from_cart", s)
        /\ Latest.id \notin DOMAIN CartIn(Latest.before)
        /\ DOMAIN CartIn(Latest.before) # {}

\* C19: the cart view lists exactly the cart entries whose MenuItem exists, each
\* with subtotal = current catalog price x quantity; its total is the sum of
\* those subtotals, so an entry whose MenuItem was deleted is in neither; the
\* view leaves the session as it was.
C19_ViewListsSurviving ==
    \A s \in Sessions :
        Did("cart", s) =>
            LET lines == Latest.view.items
            IN  /\ DOMAIN lines = {i \in DOMAIN Cart(s) : i \in DOMAIN menu}
                /\ \A i \in DOMAIN lines :
                      /\ lines[i].quantity = Cart(s)[i]
                      /\ lines[i].price = menu[i].price
                      /\ lines[i].subtotal = menu[i].price * Cart(s)[i]
                /\ Latest.view.total =
                      SumOver(DOMAIN lines, [i \in DOMAIN lines |-> lines[i].subtotal])
                /\ session[s] = Latest.before

\* C19, witness: a view of a cart with an entry whose MenuItem was deleted and
\* an entry of more than one unit.
C19_Witness ==
    \E s \in Sessions :
        /\ Did("cart", s)
        /\ \E i \in DOMAIN Cart(s) : i \notin DOMAIN menu
        /\ \E i \in DOMAIN Latest.view.items : Cart(s)[i] > 1

(***************************************************************************)
(* Properties of order administration.                                     *)
(***************************************************************************)
\* C20: update_order_status with a status that is none of pending, confirmed,
\* preparing, delivered, cancelled (or with no status) leaves the stored Order
\* as it was and redirects to the order detail page, flashing nothing.
C20_UnknownStatusIgnored ==
    (/\ Did("update_order_status", NoSession)
     /\ Latest.status \notin {"pending", "confirmed", "preparing", "delivered", "cancelled"}
     /\ Latest.id \in DOMAIN Latest.order) =>
        /\ Latest.id \in DOMAIN orders
        /\ orders[Latest.id] = Latest.order[Latest.id]
        /\ last.resp = "redirect:order_detail"
        /\ last.flash = "none"

\* C20, witness: the status 'shipped' was submitted for a stored Order.
C20_Witness ==
    /\ Did("update_order_status", NoSession)
    /\ Latest.status = "shipped"
    /\ Latest.id \in DOMAIN Latest.order

(***************************************************************************)
(* Properties of the order ledger.                                         *)
(***************************************************************************)
\* C23: a stored Order keeps its customer fields, total_amount, payment_method
\* and payment_status, and its OrderItems keep their quantity and price, under
\* every request; its status changes only by an update_order_status of it.
C23_OrdersImmutable ==
    [][\A o \in (DOMAIN orders) \cap (DOMAIN orders') :
          /\ [orders'[o] EXCEPT !.status = orders[o].status] = orders[o]
          /\ orders'[o].status # orders[o].status =>
                (last'.op = "update_order_status" /\ last'.id = o)
          /\ ItemsOf(o, order_items') = ItemsOf(o, order_items)
          /\ \A id \in ItemsOf(o, order_items) : order_items'[id] = order_items[id]]_vars

\* C23, witness: an admin has just changed the price of a MenuItem that a stored
\* OrderItem was bought at another price.
C23_Witness ==
    /\ last.op = "edit_menu_item"
    /\ \E id \in DOMAIN order_items :
          /\ order_items[id].menu_item_id = last.id
          /\ last.id \in DOMAIN menu
          /\ menu[last.id].price # order_items[id].price

\* C27: a payment commits only details that were staged from the cart it
\* commits: once the cart has changed after the last staging, payment creates
\* no Order until checkout is staged again.
C27_NoCommitOfStaleStaging ==
    \A s \in Sessions :
        ~ (/\ Len(trail) = 2
           /\ trail[1].sess = s /\ trail[2].sess = s
           /\ trail[1].op \in {"add_to_cart", "update_cart", "remove_from_cart", "clear_cart"}
           /\ "order_details" \in DOMAIN trail[1].before
           /\ CartIn(trail[2].before) # CartIn(trail[1].before)
           /\ trail[2].op = "payment"
           /\ last.resp = Confirmation)

\* C28: every Order has at least one OrderItem when it is created.
C28_OrderHasItems ==
    \A s \in Sessions : Committed(s) => ItemsOf(last.id, order_items) # {}

\* C29: add stores a cart entry only for the id of an existing, available
\* MenuItem, and a commit creates OrderItems only for available MenuItems.
C29_OnlyAvailableOrdered ==
    [][\A s \in Sessions :
          /\ last'.op = "add_to_cart" =>
                \A i \in DOMAIN Cart(s)' :
                    (i \notin DOMAIN Cart(s) \/ Cart(s)'[i] # Cart(s)[i]) =>
                        (i \in DOMAIN menu /\ menu[i].available)
          /\ Committed(s)' =>
                \A id \in ItemsOf(last'.id, order_items') :
                    /\ order_items'[id].menu_item_id \in DOMAIN menu
                    /\ menu[order_items'[id].menu_item_id].available]_vars

C22_DeleteCascades ==
    [][/\ (last'.op = "delete_order" /\ last'.id \in DOMAIN orders) =>
            /\ DOMAIN orders' = (DOMAIN orders) \ {last'.id}
            /\ \A o \in DOMAIN orders' : orders'[o] = orders[o]
            /\ DOMAIN order_items' =
                  {id \in DOMAIN order_items : order_items[id].order_id # last'.id}
            /\ \A id \in DOMAIN order_items' : order_items'[id] = order_items[id]
            /\ UNCHANGED <<menu, session>>
       /\ \A id \in DOMAIN order_items' : order_items'[id].order_id \in DOMAIN orders']_vars

\* C22, witness: an Order with two OrderItems was deleted and another Order is
\* left with its own.
C22_Witness ==
    /\ Did("delete_order", NoSession)
    /\ Latest.id \in DOMAIN Latest.order
    /\ Latest.id = 2
    /\ 1 \in DOMAIN orders
    /\ \E id \in DOMAIN order_items : order_items[id].order_id = 1

\* C25: a tracking lookup for an order id that is not stored is answered with
\* the tracking page, the message 'Order not found!' and no Order; order
\* detail, status update and delete of such an id are answered with 404; none
\* of them changes the catalog, a session or the ledger.
C25_NotFound ==
    [][/\ (/\ Latest'.op = "track_order"
           /\ Latest'.method = "POST"
           /\ Latest'.id # 0
           /\ Latest'.id \notin DOMAIN orders) =>
              /\ last'.resp = "render:track_order"
              /\ last'.flash = "Order not found!"
              /\ last'.id = 0
              /\ Latest'.order = EmptyDict
              /\ UNCHANGED <<menu, session, orders, order_items>>
       /\ (/\ Latest'.op \in {"order_detail", "update_order_status", "delete_order"}
           /\ Latest'.id \notin DOMAIN orders) =>
              /\ last'.resp = "404"
              /\ UNCHANGED <<menu, session, orders, order_items>>]_vars

\* C25, witness: an Order was deleted and then looked up by the tracking form.
C25_Witness ==
    /\ Len(trail) = 2
    /\ trail[1].op = "delete_order"
    /\ trail[1].id \in DOMAIN trail[1].order
    /\ trail[2].op = "track_order"
    /\ trail[2].method = "POST"
    /\ trail[2].id = trail[1].id
    /\ DOMAIN orders # {}

(***************************************************************************)
(* Properties of sessions.                                                 *)
(***************************************************************************)
\* C24: a cart, checkout or payment request of one session leaves the cart and
\* the staged details of every other session as they were, and a commit builds
\* its Order and OrderItems from the committing session's own staged details
\* and cart.
C24_SessionsIsolated ==
    [][\A s \in Clients : last'.sess = s =>
          /\ \A u \in Clients \ {s} : session'[u] = session[u]
          /\ (last'.op = "payment" /\ last'.resp = "redirect:order_confirmation") =>
                LET details == session[s]["order_details"]
                    entries == CartIn(session[s])
                    new_items == (DOMAIN order_items') \ (DOMAIN order_items)
                IN  /\ (DOMAIN orders') \ (DOMAIN orders) = {last'.id}
                    /\ orders'[last'.id].customer_name = details.customer_name
                    /\ orders'[last'.id].customer_email = details.customer_email
                    /\ orders'[last'.id].customer_phone = details.customer_phone
                    /\ orders'[last'.id].customer_address = details.customer_address
                    /\ orders'[last'.id].total_amount = details.total
                    /\ \A id \in new_items :
                          /\ order_items'[id].order_id = last'.id
                          /\ order_items'[id].menu_item_id \in DOMAIN entries
                          /\ order_items'[id].quantity = entries[order_items'[id].menu_item_id]
                    /\ \A i \in (DOMAIN entries) \cap (DOMAIN menu) :
                          \E id \in new_items : order_items'[id].menu_item_id = i]_vars

\* C24, witness: a session has committed while the other session held another
\* cart and details staged under another name and with another total.
C24_Witness ==
    \E s \in Clients, u \in Clients :
        /\ s # u
        /\ Committed(s)
        /\ "cart" \in DOMAIN session[u]
        /\ "order_details" \in DOMAIN session[u]
        /\ session[u]["order_details"].customer_name # orders[last.id].customer_name
        /\ session[u]["order_details"].total # orders[last.id].total_amount
        /\ \E id \in DOMAIN order_items :
              /\ order_items[id].order_id = last.id
              /\ order_items[id].menu_item_id \notin DOMAIN session[u]["cart"]

(***************************************************************************)
(* Properties of concurrent requests.                                      *)
(***************************************************************************)
ReadOps == {"order_detail", "api_order", "track_order"}

\* In the step: a reader's request was served while the payments in flight
\* stayed where they were.
ReadStep == last'.op \in ReadOps /\ nreq' = nreq + 1 /\ inflight' = inflight

C30_AtMostOneOrderPerCart ==
    \A w \in DOMAIN inflight, v \in DOMAIN inflight :
        (/\ w # v
         /\ inflight[w].sess = inflight[v].sess
         /\ inflight[w].copy = inflight[v].copy) =>
            ~(/\ inflight[w].order_id \in DOMAIN orders
              /\ inflight[v].order_id \in DOMAIN orders)

=============================================================================
